---- MODULE Spec2Model ----
(***************************************************************************)
(* State-machine model of the minidsp-rs Home Assistant integration:       *)
(* MiniDSPAPI (api.py), the websocket listener task it owns, the dispatch  *)
(* fan-out to registered listeners and the callers of subscribe,           *)
(* unsubscribe and disconnect; MiniDSPCoordinator (coordinator.py), which  *)
(* folds full HTTP snapshots and partial websocket events into one state   *)
(* snapshot, and async_setup_entry (__init__.py), which gates the start of *)
(* streaming on the first refresh.                                         *)
(*                                                                         *)
(* asyncio is cooperative: code between two awaits runs atomically, so     *)
(* every action below is one stretch of code from one suspension point to  *)
(* the next.                                                               *)
(***************************************************************************)
EXTENDS Integers, Sequences, FiniteSets, TLC

\* ---------------------------------------------------------------- bounds
MaxListeners == 2
MaxTasks == 2
MaxEvents == 2
MaxFails == 8

\* ------------------------------------------------------ program constants
BACKOFF_FLOOR == 1
BACKOFF_FACTOR == 2
BACKOFF_CAP == 60
\* const.py:4 -- the interval named for polling the status
SCAN_INTERVAL_SECONDS == 15
\* coordinator.py:26 -- update_interval=None, written 0: the coordinator
\* schedules no refresh of its own
update_interval == 0

\* The callbacks handed to async_subscribe_levels: one whose coroutine raises
\* on every event it is given, one that returns normally.
Callbacks == {"raiser", "plain"}
Raising == {"raiser"}
Tasks == 1..MaxTasks

VARIABLES
    listeners,     \* self._listeners: the list of registered callbacks
    handles,       \* callbacks for which an _unsubscribe closure was returned
    ws_task,       \* self._ws_task: 0 for None, else the task it refers to
    stop_event,    \* self._stop_event.is_set()
    pc,            \* per task: where _ws_listener_task is suspended
    backoff,       \* per task: the local variable backoff
    sleepLeft,     \* per task: time units left of asyncio.sleep(backoff)
    cur,           \* per task: the event _dispatch_event is delivering (0: none)
    idx,           \* per task: position of _dispatch_event in its snapshot
    snap,          \* per task: list(self._listeners) taken by _dispatch_event
    nframes,       \* number of text frames received so far (frame ids 1..nframes)
    got,           \* per callback: times it was invoked with the event in delivery
    lastEv,        \* per callback: the last event it was invoked with (0: none)
    dpc,           \* the async_disconnect caller: "idle" or "awaiting"
    awaited,       \* the task the async_disconnect caller awaits (0: none)
    discReturned,  \* an async_disconnect has returned and no loop was started since
    fails,         \* per task: consecutive failed connects since the last success
    lastConnect,   \* per task: "never" connected, or whether backoff stood
                   \* "at_floor" or "grown" when the last connect succeeded
    nbad,          \* malformed frames dropped on the current connection
    data,          \* coordinator.data: the snapshot observers read
    unsubscribe_ws, \* coordinator._unsubscribe_ws: "" for None, else the callback
    setup,         \* the config entry: "unloaded", "refreshing", "ready",
                   \* "not_ready" or, once unloaded again, "removed"
    stored,        \* hass.data[DOMAIN][entry_id] holds the coordinator
    fetches,       \* status GETs issued by the current async_setup_entry call
    prevData,      \* data as it was before the last coordinator operation
    lastOp,        \* the last coordinator operation: "none", "refresh",
                   \* "refresh_failed" or "event"
    lastIn,        \* index of the snapshot or event the last operation was given
    notified       \* the last coordinator operation notified the observers

vars == <<listeners, handles, ws_task, stop_event, pc, backoff, sleepLeft, cur,
          idx, snap, nframes, got, lastEv, dpc, awaited, discReturned, fails,
          lastConnect, nbad, data, unsubscribe_ws, setup, stored, fetches,
          prevData, lastOp, lastIn, notified>>

apiVars == <<listeners, handles, ws_task, stop_event>>
loopVars == <<backoff, sleepLeft, fails, lastConnect>>
dispatchVars == <<cur, idx, snap, nframes, got, lastEv, nbad>>
callerVars == <<dpc, awaited, discReturned>>
coordVars == <<data, unsubscribe_ws, setup, stored, fetches, prevData, lastOp,
               lastIn, notified>>

\* ---------------------------------------------------------------- helpers
Min(a, b) == IF a <= b THEN a ELSE b

InList(s, x) == \E i \in 1..Len(s) : s[i] = x

\* list.remove(x): the list without the first occurrence of x.
RemoveFirst(s, x) ==
    LET i == CHOOSE k \in 1..Len(s) : s[k] = x /\ \A j \in 1..(k - 1) : s[j] # x
    IN  SubSeq(s, 1, i - 1) \o SubSeq(s, i + 1, Len(s))

\* A task object is live from create_task until its coroutine returns.
Live(t) == pc[t] \notin {"none", "done"}
FreeTasks == {t \in Tasks : pc[t] = "none"}

\* ------------------------------------------------ JSON values as Python holds them
\* A scalar is a record: k is its Python type and v its value -- a float in
\* hundredths (749 is 7.49), a bool as 0 or 1 (False, True), a str as its
\* number in the table of strings in use.  Missing marks a key that a dict
\* does not have.
IntV(n) == [k |-> "int", v |-> n]
FloatV(h) == [k |-> "float", v |-> h]
BoolV(b) == [k |-> "bool", v |-> IF b THEN 1 ELSE 0]
StrV(i) == [k |-> "str", v |-> i]
Missing == [k |-> "missing", v |-> 0]

\* The keys of the master dict that the entities read.
MasterKeys == {"volume", "mute", "source"}
EmptyMaster == [k \in MasterKeys |-> Missing]

\* A dict of top-level keys `has`; the field of a key that is not in `has`
\* holds its empty value.  NoData is coordinator.data before the first
\* refresh (None, which coordinator.py:47 reads as {}).
NoData ==
    [has |-> {}, master |-> EmptyMaster, input_levels |-> <<>>,
     output_levels |-> <<>>, outputs |-> <<>>]

\* Python's round() of a float given in hundredths, going to zero instead of
\* to the nearest integer.
PyRound_truncating(h) == IF h >= 0 THEN h \div 100 ELSE -((-h) \div 100)

\* coordinator.py:110 -- Python's round() of a float given in hundredths:
\* the nearest integer, an exact half going to the even neighbour.
PyRound(h) ==
    LET q == h \div 100
        r == h % 100
    IN  IF r < 50 THEN q
        ELSE IF r > 50 THEN q + 1
        ELSE IF q % 2 = 0 THEN q ELSE q + 1

\* A conversion that leaves floats as they arrived.
_round_val_floats_kept(val) ==
    IF val.k \in {"int", "bool"} THEN IntV(val.v) ELSE val

\* coordinator.py:109-110 (the same expression at 51-54, 71-72, 87-90) --
\* int(round(val)) if isinstance(val, (int, float)) else val.  bool is a
\* subclass of int, so True and False become 1 and 0.
_round_val(val) ==
    IF val.k \in {"int", "float", "bool"}
    THEN IntV(IF val.k = "float" THEN PyRound(val.v) ELSE val.v)
    ELSE val

\* coordinator.py:51-54, 87-90, 114-115 -- [_round_val(v) for v in value]
RoundList(value) == [i \in 1..Len(value) |-> _round_val(value[i])]

\* coordinator.py:108-120 -- lists and dicts are rounded element by element;
\* an element of outputs is itself a dict, which _round_val returns as is.
_rounded_levels(d) ==
    [has |-> d.has,
     master |-> [k \in MasterKeys |-> _round_val(d.master[k])],
     input_levels |-> RoundList(d.input_levels),
     output_levels |-> RoundList(d.output_levels),
     outputs |-> d.outputs]

\* ------------------------------------------------ what the device sends
\* The value of an event's master_status or master key: a dict, or something
\* else (a non-empty string).
NotADict == [isdict |-> FALSE, d |-> EmptyMaster]
Dict(d) == [isdict |-> TRUE, d |-> d]
NoLevels ==
    [isdict |-> FALSE, has |-> {}, input_levels |-> <<>>,
     output_levels |-> <<>>]
Toslink == StrV(1)

\* An event with no keys; the events below name the keys they carry in `has`.
EmptyEvent ==
    [has |-> {}, input_levels |-> <<>>, output_levels |-> <<>>,
     master_status |-> NotADict, master |-> NotADict,
     outputs |-> [islist |-> FALSE, l |-> <<>>], levels |-> NoLevels]

\* Bodies of GET /devices/0 (api.py:34-39).
Snapshots ==
    << \* {"master": {"volume": -20.3, "mute": false},
       \*  "input_levels": [-10.2, -5.9]}
       [NoData EXCEPT !.has = {"master", "input_levels"},
                      !.master = [EmptyMaster EXCEPT !.volume = FloatV(-2030),
                                                     !.mute = BoolV(FALSE)],
                      !.input_levels = <<FloatV(-1020), FloatV(-590)>>],
       \* {"master": {"volume": -10, "mute": true, "source": "Toslink"},
       \*  "input_levels": [7.5, 2.5], "output_levels": [-0.5],
       \*  "outputs": [{"index": 0, "gain": -3.5}]}
       [has |-> {"master", "input_levels", "output_levels", "outputs"},
        master |-> [volume |-> IntV(-10), mute |-> BoolV(TRUE),
                    source |-> Toslink],
        input_levels |-> <<FloatV(750), FloatV(250)>>,
        output_levels |-> <<FloatV(-50)>>,
        outputs |-> <<[index |-> 0, gain |-> FloatV(-350)]>>] >>

\* Frames of the /devices/0?levels=true websocket after json.loads
\* (api.py:110-119), in the shapes _levels_callback tells apart.
Events ==
    << \* 1: {"input_levels": [7.5, 7.49]}
       [EmptyEvent EXCEPT !.has = {"input_levels"},
                          !.input_levels = <<FloatV(750), FloatV(749)>>],
       \* 2: {"levels": {"input_levels": [-10.2, -5.9], "output_levels": [2.5]}}
       [EmptyEvent EXCEPT !.has = {"levels"},
                          !.levels = [isdict |-> TRUE,
                                      has |-> {"input_levels", "output_levels"},
                                      input_levels |-> <<FloatV(-1020), FloatV(-590)>>,
                                      output_levels |-> <<FloatV(250)>>]],
       \* 3: {"master_status": {"mute": true}}
       [EmptyEvent EXCEPT !.has = {"master_status"},
                          !.master_status = Dict([EmptyMaster EXCEPT !.mute = BoolV(TRUE)])],
       \* 4: {"master": {"volume": -10.2}}
       [EmptyEvent EXCEPT !.has = {"master"},
                          !.master = Dict([EmptyMaster EXCEPT !.volume = FloatV(-1020)])],
       \* 5: {"outputs": [{"index": 0, "gain": -3.5}]}
       [EmptyEvent EXCEPT !.has = {"outputs"},
                          !.outputs = [islist |-> TRUE,
                                       l |-> <<[index |-> 0, gain |-> FloatV(-350)]>>]],
       \* 6: {"outputs": "x"}
       [EmptyEvent EXCEPT !.has = {"outputs"}],
       \* 7: {"input_levels": [1, 1], "levels": {"input_levels": [2, 2]}}
       [EmptyEvent EXCEPT !.has = {"input_levels", "levels"},
                          !.input_levels = <<IntV(1), IntV(1)>>,
                          !.levels = [isdict |-> TRUE, has |-> {"input_levels"},
                                      input_levels |-> <<IntV(2), IntV(2)>>,
                                      output_levels |-> <<>>]],
       \* 8: {"input_levels": [7.5, 7.49],
       \*     "master_status": {"volume": -20.3, "source": "Toslink"}}
       [EmptyEvent EXCEPT !.has = {"input_levels", "master_status"},
                          !.input_levels = <<FloatV(750), FloatV(749)>>,
                          !.master_status = Dict([EmptyMaster EXCEPT !.volume = FloatV(-2030),
                                                                     !.source = Toslink])],
       \* 9: {"master_status": {}, "master": {"mute": false}}
       [EmptyEvent EXCEPT !.has = {"master_status", "master"},
                          !.master_status = Dict(EmptyMaster),
                          !.master = Dict([EmptyMaster EXCEPT !.mute = BoolV(FALSE)])],
       \* 10: {"master_status": "x", "master": {"volume": 0}}
       [EmptyEvent EXCEPT !.has = {"master_status", "master"},
                          !.master = Dict([EmptyMaster EXCEPT !.volume = IntV(0)])],
       \* 11: {"levels": "x"}
       [EmptyEvent EXCEPT !.has = {"levels"}],
       \* 12: {"outputs": [{"index": 0, "gain": -6}, {"index": 1, "gain": 0.5}]}
       [EmptyEvent EXCEPT !.has = {"outputs"},
                          !.outputs = [islist |-> TRUE,
                                       l |-> <<[index |-> 0, gain |-> IntV(-6)],
                                               [index |-> 1, gain |-> FloatV(50)]>>]] >>

\* ------------------------------------------------ _levels_callback, rule by rule
\* Each rule takes and returns c = [d |-> current, u |-> updated].

\* A callback that starts from an empty dict instead of the stored data.
current_copy_empty(d) == NoData

\* coordinator.py:47 -- current = dict(self.data or {})
current_copy(d) == d

\* coordinator.py:51-58 and 87-94 -- one level list: round it, store it when
\* it differs from current.get(key).
merge_level(c, key, value) ==
    LET new_list == RoundList(value)
    IN  IF key \in c.d.has /\ c.d[key] = new_list
        THEN c
        ELSE [d |-> [c.d EXCEPT ![key] = new_list, !.has = @ \cup {key}],
              u |-> TRUE]

\* coordinator.py:49-58 -- for key in ("input_levels", "output_levels")
merge_top_levels(c, e) ==
    LET c1 == IF "input_levels" \in e.has
              THEN merge_level(c, "input_levels", e.input_levels)
              ELSE c
    IN  IF "output_levels" \in e.has
        THEN merge_level(c1, "output_levels", e.output_levels)
        ELSE c1

\* Python truth of a value of master_status: an empty dict is false.
Truthy(m) == ~m.isdict \/ \E k \in MasterKeys : m.d[k] # Missing

\* coordinator.py:61 -- event.get("master_status") or event.get("master")
incoming_master(e) ==
    IF "master_status" \in e.has /\ Truthy(e.master_status)
    THEN e.master_status
    ELSE IF "master" \in e.has THEN e.master ELSE NotADict

\* A master rule that stores the incoming dict in place of the old one.
merge_master_wholesale(c, e) ==
    IF incoming_master(e).isdict
    THEN [d |-> [c.d EXCEPT !.master = [k \in MasterKeys |->
                                          _round_val(incoming_master(e).d[k])],
                            !.has = @ \cup {"master"}],
          u |-> TRUE]
    ELSE c

\* coordinator.py:60-78 -- the master dict is created when absent, merged key
\* by key with numbers rounded, and stored when the merge differs.
merge_master(c, e) ==
    IF e.has \cap {"master_status", "master"} = {}
    THEN c
    ELSE LET incoming == incoming_master(e)
             current == [c.d EXCEPT !.has = @ \cup {"master"}]
             merged_master ==
                 [k \in MasterKeys |->
                     IF incoming.d[k] # Missing
                     THEN _round_val(incoming.d[k])
                     ELSE current.master[k]]
         IN  IF ~incoming.isdict
             THEN c
             ELSE IF merged_master # current.master
                  THEN [d |-> [current EXCEPT !.master = merged_master],
                        u |-> TRUE]
                  ELSE [d |-> current, u |-> c.u]

\* An outputs rule that counts an update only when the list differs.
merge_outputs_if_changed(c, e) ==
    IF "outputs" \in e.has /\ e.outputs.islist
       /\ ~("outputs" \in c.d.has /\ c.d.outputs = e.outputs.l)
    THEN [d |-> [c.d EXCEPT !.outputs = e.outputs.l, !.has = @ \cup {"outputs"}],
          u |-> TRUE]
    ELSE c

\* coordinator.py:80-82 -- a list of outputs is stored as it came and always
\* counts as an update.
merge_outputs(c, e) ==
    IF "outputs" \in e.has /\ e.outputs.islist
    THEN [d |-> [c.d EXCEPT !.outputs = e.outputs.l, !.has = @ \cup {"outputs"}],
          u |-> TRUE]
    ELSE c

\* coordinator.py:85-94 -- the same level rule for a nested "levels" dict.
merge_nested_levels(c, e) ==
    IF "levels" \in e.has /\ e.levels.isdict
    THEN LET c1 == IF "input_levels" \in e.levels.has
                   THEN merge_level(c, "input_levels", e.levels.input_levels)
                   ELSE c
         IN  IF "output_levels" \in e.levels.has
             THEN merge_level(c1, "output_levels", e.levels.output_levels)
             ELSE c1
    ELSE c

\* A callback that publishes as soon as the level rule has run.
merge_event_levels_published_first(d, e) ==
    merge_top_levels([d |-> current_copy(d), u |-> FALSE], e)

\* coordinator.py:45-98 -- the rules in the order the callback applies them.
merge_event(d, e) ==
    merge_nested_levels(
        merge_outputs(
            merge_master(
                merge_top_levels([d |-> current_copy(d), u |-> FALSE], e),
                e),
            e),
        e)

\* coordinator.py:37 -- what _async_update_data returns for a fetched body.
_async_update_data(body) == _rounded_levels(body)

\* -------------------------------------------------------------------- Init
Init ==
    /\ listeners = <<>>
    /\ handles = {}
    /\ ws_task = 0
    /\ stop_event = FALSE
    /\ pc = [t \in Tasks |-> "none"]
    /\ backoff = [t \in Tasks |-> 0]
    /\ sleepLeft = [t \in Tasks |-> 0]
    /\ cur = [t \in Tasks |-> 0]
    /\ idx = [t \in Tasks |-> 0]
    /\ snap = [t \in Tasks |-> <<>>]
    /\ nframes = 0
    /\ got = [c \in Callbacks |-> 0]
    /\ lastEv = [c \in Callbacks |-> 0]
    /\ dpc = "idle"
    /\ awaited = 0
    /\ discReturned = FALSE
    /\ fails = [t \in Tasks |-> 0]
    /\ lastConnect = [t \in Tasks |-> "never"]
    /\ nbad = 0
    /\ data = NoData
    /\ unsubscribe_ws = ""
    /\ setup = "unloaded"
    /\ stored = FALSE
    /\ fetches = 0
    /\ prevData = NoData
    /\ lastOp = "none"
    /\ lastIn = 0
    /\ notified = FALSE

\* ------------------------------------------------- async_subscribe_levels
\* api.py:81 -- a task is created only while none was ever created.
NeedsTask_always == TRUE
NeedsTask == ws_task = 0

\* api.py:79-90 -- what the call does to the MiniDSPAPI object.
subscribe_levels(cb) ==
    /\ Len(listeners) < MaxListeners
    /\ listeners' = Append(listeners, cb)
    /\ handles' = handles \cup {cb}
    /\ IF NeedsTask /\ FreeTasks # {}
       THEN LET t == CHOOSE x \in FreeTasks : \A y \in FreeTasks : x <= y
            IN  /\ ws_task' = t
                /\ pc' = [pc EXCEPT ![t] = "created"]
                /\ discReturned' = FALSE
       ELSE UNCHANGED <<ws_task, pc, discReturned>>
    /\ UNCHANGED <<stop_event, dpc, awaited>>
    /\ UNCHANGED loopVars
    /\ UNCHANGED dispatchVars

\* api.py:70-90 -- a caller other than the coordinator subscribes cb.
async_subscribe_levels(cb) ==
    /\ subscribe_levels(cb)
    /\ UNCHANGED coordVars

\* ------------------------------------------------------------ _unsubscribe
\* api.py:87-88 -- the stop signal is set when the list is empty afterwards.
StopAfterUnsubscribe_always(ls) == TRUE
StopAfterUnsubscribe(ls) == ls = <<>>

\* api.py:84-88 -- the closure returned for callback cb.
_unsubscribe(cb) ==
    /\ cb \in handles
    /\ LET ls == IF InList(listeners, cb) THEN RemoveFirst(listeners, cb)
                 ELSE listeners
       IN  /\ listeners' = ls
           /\ stop_event' = (stop_event \/ StopAfterUnsubscribe(ls))
    /\ UNCHANGED <<handles, ws_task, pc>>
    /\ UNCHANGED loopVars
    /\ UNCHANGED dispatchVars
    /\ UNCHANGED callerVars
    /\ UNCHANGED coordVars

\* -------------------------------------------------------- async_disconnect
\* api.py:96 -- "await self._ws_task" resumes once the task has finished.
AwaitCompletes_nowait(t) == TRUE
AwaitCompletes(t) == pc[t] = "done"

\* A test that takes a finished task for one that still has to be stopped.
DisconnectAwaits_finished_too == ws_task # 0

\* api.py:94 -- if self._ws_task and not self._ws_task.done()
DisconnectAwaits == ws_task # 0 /\ pc[ws_task] # "done"

\* api.py:94-96 up to the await; with no task, or a finished one, the call
\* returns at once.
async_disconnect_call ==
    /\ dpc = "idle"
    /\ IF DisconnectAwaits
       THEN /\ stop_event' = TRUE
            /\ dpc' = "awaiting"
            /\ awaited' = ws_task
            /\ UNCHANGED discReturned
       ELSE /\ discReturned' = TRUE
            /\ UNCHANGED <<stop_event, dpc, awaited>>
    /\ UNCHANGED <<listeners, handles, ws_task, pc>>
    /\ UNCHANGED loopVars
    /\ UNCHANGED dispatchVars
    /\ UNCHANGED coordVars

\* api.py:96 -- the await is over, async_disconnect returns.
async_disconnect_return ==
    /\ dpc = "awaiting"
    /\ AwaitCompletes(awaited)
    /\ dpc' = "idle"
    /\ awaited' = 0
    /\ discReturned' = TRUE
    /\ UNCHANGED pc
    /\ UNCHANGED apiVars
    /\ UNCHANGED loopVars
    /\ UNCHANGED dispatchVars
    /\ UNCHANGED coordVars

\* ------------------------------------------------------- _ws_listener_task
\* api.py:104 -- the while condition: where the loop goes next.
LoopHead == IF stop_event THEN "done" ELSE "connecting"

\* api.py:129 -- the stop check after a connection attempt has ended.
BreakAfterAttempt_always == TRUE
BreakAfterAttempt == stop_event

\* api.py:129-133 -- after the attempt: leave the loop, or start the sleep.
ws_after_attempt(t) ==
    IF BreakAfterAttempt
    THEN /\ pc' = [pc EXCEPT ![t] = "done"]
         /\ UNCHANGED sleepLeft
    ELSE /\ pc' = [pc EXCEPT ![t] = "sleeping"]
         /\ sleepLeft' = [sleepLeft EXCEPT ![t] = backoff[t]]

\* api.py:108 -- backoff after a successful connect.
BackoffOnConnect_kept(b) == b
BackoffOnConnect(b) == BACKOFF_FLOOR

\* api.py:134 -- backoff after a completed sleep.
NextBackoff_uncapped(b) == b * BACKOFF_FACTOR
NextBackoff(b) == Min(b * BACKOFF_FACTOR, BACKOFF_CAP)

\* api.py:102-107 -- the task starts running: backoff = 1.0, first loop test.
ws_start(t) ==
    /\ pc[t] = "created"
    /\ backoff' = [backoff EXCEPT ![t] = BACKOFF_FLOOR]
    /\ pc' = [pc EXCEPT ![t] = LoopHead]
    /\ UNCHANGED <<sleepLeft, fails, lastConnect>>
    /\ UNCHANGED apiVars
    /\ UNCHANGED dispatchVars
    /\ UNCHANGED callerVars
    /\ UNCHANGED coordVars

\* api.py:107-109 -- ws_connect succeeded; the task waits for a frame.
ws_connect_ok(t) ==
    /\ pc[t] = "connecting"
    /\ lastConnect' = [lastConnect EXCEPT
                         ![t] = IF backoff[t] > BACKOFF_FLOOR THEN "grown"
                                ELSE "at_floor"]
    /\ backoff' = [backoff EXCEPT ![t] = BackoffOnConnect(backoff[t])]
    /\ fails' = [fails EXCEPT ![t] = 0]
    /\ pc' = [pc EXCEPT ![t] = "receiving"]
    /\ UNCHANGED sleepLeft
    /\ UNCHANGED apiVars
    /\ nbad' = 0
    /\ UNCHANGED <<cur, idx, snap, nframes, got, lastEv>>
    /\ UNCHANGED callerVars
    /\ UNCHANGED coordVars

\* api.py:107,126-133 -- ws_connect raised ClientError or TimeoutError.
ws_connect_fail(t) ==
    /\ pc[t] = "connecting"
    /\ fails[t] < MaxFails
    /\ fails' = [fails EXCEPT ![t] = @ + 1]
    /\ ws_after_attempt(t)
    /\ UNCHANGED <<backoff, lastConnect>>
    /\ UNCHANGED apiVars
    /\ UNCHANGED dispatchVars
    /\ UNCHANGED callerVars
    /\ UNCHANGED coordVars

\* api.py:133 -- time passes while the task is in asyncio.sleep(backoff):
\* the rest of the duration elapses.
sleep_elapse(t) ==
    /\ pc[t] = "sleeping"
    /\ sleepLeft[t] > 0
    /\ sleepLeft' = [sleepLeft EXCEPT ![t] = 0]
    /\ UNCHANGED <<pc, backoff, fails, lastConnect>>
    /\ UNCHANGED apiVars
    /\ UNCHANGED dispatchVars
    /\ UNCHANGED callerVars
    /\ UNCHANGED coordVars

\* api.py:133-134,104 -- the sleep is over: double backoff, test the loop.
ws_wake(t) ==
    /\ pc[t] = "sleeping"
    /\ sleepLeft[t] = 0
    /\ backoff' = [backoff EXCEPT ![t] = NextBackoff(backoff[t])]
    /\ pc' = [pc EXCEPT ![t] = LoopHead]
    /\ UNCHANGED <<sleepLeft, fails, lastConnect>>
    /\ UNCHANGED apiVars
    /\ UNCHANGED dispatchVars
    /\ UNCHANGED callerVars
    /\ UNCHANGED coordVars

\* api.py:109-125,129-133 -- the socket closed, delivered an ERROR message
\* or the receive raised ClientError/TimeoutError: the receive loop ends.
ws_recv_close(t) ==
    /\ pc[t] = "receiving"
    /\ ws_after_attempt(t)
    /\ UNCHANGED <<backoff, fails, lastConnect>>
    /\ UNCHANGED apiVars
    /\ UNCHANGED dispatchVars
    /\ UNCHANGED callerVars
    /\ UNCHANGED coordVars

\* A decode error that ends the receive loop instead of skipping the frame.
on_decode_error_breaks(t) == ws_after_attempt(t)

\* api.py:113-117 -- json.loads raised: warning, continue with the next frame.
on_decode_error(t) == UNCHANGED <<pc, sleepLeft>>

\* api.py:110-117 -- a text frame that is not JSON.
ws_recv_malformed(t) ==
    /\ pc[t] = "receiving"
    /\ nframes < MaxEvents
    /\ nframes' = nframes + 1
    /\ nbad' = nbad + 1
    /\ on_decode_error(t)
    /\ UNCHANGED <<backoff, fails, lastConnect>>
    /\ UNCHANGED <<cur, idx, snap, got, lastEv>>
    /\ UNCHANGED apiVars
    /\ UNCHANGED callerVars
    /\ UNCHANGED coordVars

\* --------------------------------------------------------- _dispatch_event
\* api.py:140-141 -- the listener returns: the loop over the snapshot goes on.
listener_returned(t) == pc' = [pc EXCEPT ![t] = "dispatching"]

\* An exception that leaves _dispatch_event ends the task: it is none of
\* the exceptions api.py:126 catches.
listener_raised_propagates(t) == pc' = [pc EXCEPT ![t] = "done"]

\* api.py:142-143 -- the listener raises: logged, the loop goes on.
listener_raised(t) == pc' = [pc EXCEPT ![t] = "dispatching"]

\* A dispatch that walks the listener list itself.
DispatchList_live(t) == listeners

\* api.py:139 -- for cb in list(self._listeners): the loop walks the copy
\* made when the dispatch began.
DispatchList(t) == snap[t]

\* api.py:140-143 -- await cb(event): cb is called for event ev.  The task
\* stays in the state "dispatching" while cb runs; other coroutines run when
\* cb suspends, that is, before the next step of the dispatch.
call_listener(t, cb, ev) ==
    /\ lastEv' = [lastEv EXCEPT ![cb] = ev]
    /\ IF cb \in Raising THEN listener_raised(t) ELSE listener_returned(t)

\* api.py:110-119,139-141 -- a JSON text frame: _dispatch_event takes its
\* snapshot of the listener list and calls the first listener, with no
\* suspension in between; with no listener it returns at once.
ws_recv_text(t) ==
    /\ pc[t] = "receiving"
    /\ nframes < MaxEvents
    /\ nframes' = nframes + 1
    /\ IF listeners = <<>>
       THEN UNCHANGED <<pc, cur, snap, idx, got, lastEv>>
       ELSE /\ cur' = [cur EXCEPT ![t] = nframes + 1]
            /\ snap' = [snap EXCEPT ![t] = listeners]
            /\ idx' = [idx EXCEPT ![t] = 2]
            /\ got' = [c \in Callbacks |-> IF c = listeners[1] THEN 1 ELSE 0]
            /\ call_listener(t, listeners[1], nframes + 1)
    /\ UNCHANGED nbad
    /\ UNCHANGED apiVars
    /\ UNCHANGED loopVars
    /\ UNCHANGED callerVars
    /\ UNCHANGED coordVars

\* api.py:139-143 -- the listener that was running is over and the next one
\* of the snapshot is called.
dispatch_invoke(t) ==
    /\ pc[t] = "dispatching"
    /\ idx[t] <= Len(DispatchList(t))
    /\ LET cb == DispatchList(t)[idx[t]]
       IN  /\ got' = [got EXCEPT ![cb] = @ + 1]
           /\ call_listener(t, cb, cur[t])
    /\ idx' = [idx EXCEPT ![t] = @ + 1]
    /\ UNCHANGED <<cur, snap, nframes, nbad>>
    /\ UNCHANGED apiVars
    /\ UNCHANGED loopVars
    /\ UNCHANGED callerVars
    /\ UNCHANGED coordVars

\* api.py:139,109 -- the last listener of the snapshot is over:
\* _dispatch_event returns and the task waits for the next frame.
dispatch_done(t) ==
    /\ pc[t] = "dispatching"
    /\ idx[t] > Len(DispatchList(t))
    /\ pc' = [pc EXCEPT ![t] = "receiving"]
    /\ cur' = [cur EXCEPT ![t] = 0]
    /\ idx' = [idx EXCEPT ![t] = 0]
    /\ snap' = [snap EXCEPT ![t] = <<>>]
    /\ got' = [c \in Callbacks |-> 0]
    /\ UNCHANGED <<nframes, lastEv, nbad>>
    /\ UNCHANGED apiVars
    /\ UNCHANGED loopVars
    /\ UNCHANGED callerVars
    /\ UNCHANGED coordVars

\* ---------------------------------------------------------- specification
\* ------------------------------------------- MiniDSPCoordinator and the entry
\* The one callback the coordinator registers (coordinator.py:45,100); it
\* catches nothing and raises nothing of its own.
CoordinatorCallback == "plain"

\* coordinator.py:42-100 -- async_start: subscribe _levels_callback, keep the
\* handle.  The subscribe coroutine never suspends.
async_start ==
    /\ subscribe_levels(CoordinatorCallback)
    /\ unsubscribe_ws' = CoordinatorCallback

\* coordinator.py:102-106 up to the await inside MiniDSPAPI.async_disconnect:
\* call the handle when there is one, forget it, disconnect the API.
disconnect_coordinator ==
    /\ dpc = "idle"
    /\ LET ls == IF unsubscribe_ws # "" /\ InList(listeners, unsubscribe_ws)
                 THEN RemoveFirst(listeners, unsubscribe_ws)
                 ELSE listeners
           stopped == stop_event
                      \/ (unsubscribe_ws # "" /\ StopAfterUnsubscribe(ls))
       IN  /\ listeners' = ls
           /\ unsubscribe_ws' = ""
           /\ IF DisconnectAwaits
              THEN /\ stop_event' = TRUE
                   /\ dpc' = "awaiting"
                   /\ awaited' = ws_task
                   /\ UNCHANGED discReturned
              ELSE /\ stop_event' = stopped
                   /\ discReturned' = TRUE
                   /\ UNCHANGED <<dpc, awaited>>
    /\ UNCHANGED <<handles, ws_task, pc>>
    /\ UNCHANGED loopVars
    /\ UNCHANGED dispatchVars

\* __init__.py:25-45 -- async_setup_entry builds the API object and the
\* coordinator and awaits the first refresh, which issues one status GET.
async_setup_entry ==
    /\ setup \in {"unloaded", "not_ready"}
    /\ setup' = "refreshing"
    /\ fetches' = 1
    /\ UNCHANGED <<data, unsubscribe_ws, stored, prevData, lastOp, lastIn,
                   notified>>
    /\ UNCHANGED apiVars
    /\ UNCHANGED <<pc, cur, idx, snap, nframes, got, lastEv, nbad>>
    /\ UNCHANGED loopVars
    /\ UNCHANGED callerVars

\* A refresh that tells the observers only when the data changed.
replace_if_changed(i) ==
    /\ data' = _async_update_data(Snapshots[i])
    /\ prevData' = data
    /\ lastOp' = "refresh"
    /\ lastIn' = i
    /\ notified' = (data' # data)

\* coordinator.py:34-37 -- a fetched body becomes the data and the observers
\* are told (DataUpdateCoordinator with its default always_update).
replace(i) ==
    /\ data' = _async_update_data(Snapshots[i])
    /\ prevData' = data
    /\ lastOp' = "refresh"
    /\ lastIn' = i
    /\ notified' = TRUE

\* coordinator.py:38-39 -- the fetch raised: UpdateFailed, the data stays.
refresh_failed ==
    /\ prevData' = data
    /\ lastOp' = "refresh_failed"
    /\ lastIn' = 0
    /\ UNCHANGED data

\* A failed first refresh that is swallowed: setup goes on as if it succeeded.
first_refresh_failed_swallowed ==
    /\ setup = "refreshing"
    /\ refresh_failed
    /\ notified' = FALSE
    /\ async_start
    /\ stored' = TRUE
    /\ setup' = "ready"
    /\ UNCHANGED fetches

\* __init__.py:44-48 -- the first refresh raised: ConfigEntryNotReady goes to
\* the caller, nothing after the try block runs.
first_refresh_failed ==
    /\ setup = "refreshing"
    /\ refresh_failed
    /\ notified' = FALSE
    /\ setup' = "not_ready"
    /\ UNCHANGED <<unsubscribe_ws, stored, fetches>>
    /\ UNCHANGED apiVars
    /\ UNCHANGED <<pc, cur, idx, snap, nframes, got, lastEv, nbad>>
    /\ UNCHANGED loopVars
    /\ UNCHANGED callerVars

\* __init__.py:44-54 -- the first refresh succeeded: async_start runs and the
\* coordinator is stored, with no suspension in between.
first_refresh_ok(i) ==
    /\ setup = "refreshing"
    /\ replace(i)
    /\ async_start
    /\ stored' = TRUE
    /\ setup' = "ready"
    /\ UNCHANGED fetches

\* media_player.py:124,138,143,150, number.py:46, switch.py:34,38 -- an entity
\* asks for a refresh after a command and the fetch succeeds.
async_request_refresh(i) ==
    /\ setup = "ready"
    /\ replace(i)
    /\ UNCHANGED <<unsubscribe_ws, setup, stored, fetches>>
    /\ UNCHANGED apiVars
    /\ UNCHANGED <<pc, cur, idx, snap, nframes, got, lastEv, nbad>>
    /\ UNCHANGED loopVars
    /\ UNCHANGED callerVars

\* The same request when the fetch fails; whether the observers hear of the
\* failure is the base class's decision.
async_request_refresh_failed ==
    /\ setup = "ready"
    /\ refresh_failed
    /\ notified' \in BOOLEAN
    /\ UNCHANGED <<unsubscribe_ws, setup, stored, fetches>>
    /\ UNCHANGED apiVars
    /\ UNCHANGED <<pc, cur, idx, snap, nframes, got, lastEv, nbad>>
    /\ UNCHANGED loopVars
    /\ UNCHANGED callerVars

\* coordinator.py:45-98 -- the registered callback is handed event i: the
\* merged copy is published with async_set_updated_data when a rule counted
\* an update, and dropped otherwise.
_levels_callback(i) ==
    /\ InList(listeners, CoordinatorCallback)
    /\ unsubscribe_ws = CoordinatorCallback
    /\ LET c == merge_event(data, Events[i])
       IN  /\ data' = IF c.u THEN c.d ELSE data
           /\ notified' = c.u
    /\ prevData' = data
    /\ lastOp' = "event"
    /\ lastIn' = i
    /\ UNCHANGED <<unsubscribe_ws, setup, stored, fetches>>
    /\ UNCHANGED apiVars
    /\ UNCHANGED <<pc, cur, idx, snap, nframes, got, lastEv, nbad>>
    /\ UNCHANGED loopVars
    /\ UNCHANGED callerVars

\* __init__.py:66-76 -- unload: the stored coordinator is popped and
\* disconnected.  A later setup builds a new API object and a new
\* coordinator, which are not these.
async_unload_entry ==
    /\ setup = "ready"
    /\ stored
    /\ stored' = FALSE
    /\ setup' = "removed"
    /\ disconnect_coordinator
    /\ UNCHANGED <<data, fetches, prevData, lastOp, lastIn, notified>>

\* coordinator.py:102-106 -- async_disconnect called on a coordinator that
\* is not, or no longer, in hass.data.
coordinator_async_disconnect ==
    /\ setup \in {"not_ready", "removed"}
    /\ disconnect_coordinator
    /\ UNCHANGED <<data, setup, stored, fetches, prevData, lastOp, lastIn,
                   notified>>

Next ==
    \/ \E cb \in Callbacks : async_subscribe_levels(cb)
    \/ \E cb \in Callbacks : _unsubscribe(cb)
    \/ async_disconnect_call
    \/ async_disconnect_return
    \/ \E t \in Tasks : ws_start(t)
    \/ \E t \in Tasks : ws_connect_ok(t)
    \/ \E t \in Tasks : ws_connect_fail(t)
    \/ \E t \in Tasks : sleep_elapse(t)
    \/ \E t \in Tasks : ws_wake(t)
    \/ \E t \in Tasks : ws_recv_close(t)
    \/ \E t \in Tasks : ws_recv_malformed(t)
    \/ \E t \in Tasks : ws_recv_text(t)
    \/ \E t \in Tasks : dispatch_invoke(t)
    \/ \E t \in Tasks : dispatch_done(t)

Spec == Init /\ [][Next]_vars

\* The event loop runs every task that is ready: a created task starts, a
\* connection attempt ends (it succeeds, fails or times out), time passes for
\* a sleeping task, a woken task resumes and a listener that was called
\* returns or raises.  Nothing obliges the peer to send a frame or to close
\* the socket, nor a caller to call.
Fairness ==
    \A t \in Tasks :
        /\ WF_vars(ws_start(t))
        /\ WF_vars(ws_connect_ok(t) \/ ws_connect_fail(t))
        /\ WF_vars(sleep_elapse(t))
        /\ WF_vars(ws_wake(t))
        /\ WF_vars(dispatch_invoke(t))
        /\ WF_vars(dispatch_done(t))

FairSpec == Spec /\ Fairness

\* The coordinator on its own: setup, full refreshes and the events its
\* callback is handed, whatever the transport did to deliver them.
CoordNext ==
    \/ async_setup_entry
    \/ first_refresh_failed
    \/ \E i \in DOMAIN Snapshots : first_refresh_ok(i)
    \/ \E i \in DOMAIN Snapshots : async_request_refresh(i)
    \/ async_request_refresh_failed
    \/ \E i \in DOMAIN Events : _levels_callback(i)

CoordSpec == Init /\ [][CoordNext]_vars

\* The life of one config entry: setup, the connection loop of its API
\* object on a peer that sends no frames, unload, and disconnect calls at
\* both levels.
EntryNext ==
    \/ async_setup_entry
    \/ first_refresh_failed
    \/ \E i \in DOMAIN Snapshots : first_refresh_ok(i)
    \/ async_unload_entry
    \/ coordinator_async_disconnect
    \/ async_disconnect_call
    \/ async_disconnect_return
    \/ \E t \in Tasks : ws_start(t)
    \/ \E t \in Tasks : ws_connect_ok(t)
    \/ \E t \in Tasks : ws_connect_fail(t)
    \/ \E t \in Tasks : sleep_elapse(t)
    \/ \E t \in Tasks : ws_wake(t)
    \/ \E t \in Tasks : ws_recv_close(t)

EntrySpec == Init /\ [][EntryNext]_vars

\* ------------------------------------------------------------------ claims
\* Vocabulary of the properties below.
Connection(t) == pc[t] \in {"connecting", "receiving", "dispatching"}

RECURSIVE Pow2(_)
Pow2(n) == IF n = 0 THEN 1 ELSE 2 * Pow2(n - 1)

\* Number of positions of sequence s that hold x.
Count(s, x) == Cardinality({i \in 1..Len(s) : s[i] = x})

\* C1: whatever subscribe, unsubscribe and disconnect calls are made, at most
\* one listener task is live and at most one connection is open or being
\* opened.
C1_SingleLoop ==
    /\ Cardinality({t \in Tasks : Live(t)}) <= 1
    /\ Cardinality({t \in Tasks : Connection(t)}) <= 1

\* Two listeners are registered and the one loop holds an open connection.
C1_Witness ==
    /\ Len(listeners) = 2
    /\ ws_task # 0
    /\ pc[ws_task] = "receiving"

\* C2: an unsubscribe that leaves a listener registered changes neither the
\* stop signal nor the loop; the unsubscribe that removes the last listener
\* raises the stop signal; and apart from a disconnect call nothing else
\* raises it.
C2_RefCounted ==
    [][ /\ (Len(listeners') < Len(listeners) /\ listeners' # <<>>)
            => (stop_event' = stop_event /\ pc' = pc)
        /\ (Len(listeners') < Len(listeners) /\ listeners' = <<>>)
            => stop_event'
        /\ (~stop_event /\ stop_event' /\ dpc' = dpc)
            => (listeners # <<>> /\ listeners' = <<>>) ]_vars

\* Both callbacks subscribed, both unsubscribed, no disconnect was ever
\* called: the stop signal is up and the loop still has to notice it.
C2_Witness ==
    /\ handles = Callbacks
    /\ listeners = <<>>
    /\ stop_event
    /\ dpc = "idle"
    /\ ~discReturned
    /\ ws_task # 0
    /\ Live(ws_task)

\* C3: once every listener has unsubscribed and the loop has stopped, a new
\* subscribe starts a fresh loop that the earlier stop signal does not stop.
C3_ResubscribeStartsFreshLoop ==
    [][ ( /\ listeners = <<>>
          /\ ws_task # 0
          /\ \A t \in Tasks : ~Live(t)
          /\ listeners' # <<>> )
        => ( /\ \E t \in Tasks : pc'[t] = "created"
             /\ ~stop_event' ) ]_vars

\* C4: when async_disconnect has returned no loop is live (no connection
\* attempt, receive, dispatch or sleep is in progress), and from then on no
\* listener is invoked.
C4_DisconnectWaits ==
    /\ [](discReturned => \A t \in Tasks : ~Live(t) /\ cur[t] = 0)
    /\ [][(discReturned /\ discReturned') => (got' = got /\ lastEv' = lastEv)]_vars

\* A loop ran, delivered a frame, and a disconnect made while listeners were
\* still registered has returned.
C4_Witness ==
    /\ discReturned
    /\ ws_task # 0
    /\ pc[ws_task] = "done"
    /\ listeners # <<>>
    /\ nframes > 0

\* C5: once the stop signal is raised the loop eventually stops, whatever
\* it was doing.
C5_StopLeadsToStopped ==
    stop_event ~> (\A t \in Tasks : ~Live(t))

\* C6: with the stop signal raised, a loop in its backoff sleep does not go
\* on waiting out the rest of the sleep.
C6_StopInterruptsSleep ==
    [][ \A t \in Tasks :
          (pc[t] = "sleeping" /\ stop_event)
          => ~(pc'[t] = "sleeping" /\ sleepLeft'[t] < sleepLeft[t]) ]_vars

\* C7 as stated: after N >= 1 consecutive failed attempts the wait is
\* min(2^N, 60).
C7_WaitIsTwoToTheN ==
    \A t \in Tasks :
        (pc[t] = "sleeping" /\ fails[t] >= 1)
        => backoff[t] = Min(Pow2(fails[t]), BACKOFF_CAP)

\* C7, amended: the wait never exceeds 60; after the first N >= 1 attempts
\* of a loop have all failed it is min(2^(N-1), 60); after N failed attempts
\* that follow a lost connection it is min(2^N, 60).
C7_BackoffGrowth ==
    \A t \in Tasks :
        pc[t] = "sleeping" =>
            /\ sleepLeft[t] <= backoff[t]
            /\ backoff[t] <= BACKOFF_CAP
            /\ lastConnect[t] = "never"
                => (fails[t] >= 1
                    /\ backoff[t] = Min(Pow2(fails[t] - 1), BACKOFF_CAP))
            /\ lastConnect[t] # "never"
                => backoff[t] = Min(Pow2(fails[t]), BACKOFF_CAP)

\* The first eight attempts of a loop failed: the wait has reached the cap.
C7_Witness ==
    \E t \in Tasks :
        /\ pc[t] = "sleeping"
        /\ lastConnect[t] = "never"
        /\ fails[t] = 8
        /\ sleepLeft[t] = BACKOFF_CAP

\* C8: a successful connect puts backoff back to 1, so the wait that follows
\* the loss of that connection is 1.
C8_ReconnectReset ==
    \A t \in Tasks :
        /\ pc[t] \in {"receiving", "dispatching"} => backoff[t] = BACKOFF_FLOOR
        /\ (pc[t] = "sleeping" /\ fails[t] = 0)
            => (backoff[t] = BACKOFF_FLOOR /\ sleepLeft[t] <= BACKOFF_FLOOR)

\* Backoff had grown when the connect succeeded; the connection was lost and
\* the loop now waits one time unit.
C8_Witness ==
    \E t \in Tasks :
        /\ pc[t] = "sleeping"
        /\ fails[t] = 0
        /\ lastConnect[t] = "grown"
        /\ sleepLeft[t] = 1

\* C9: the loop ends only when the stop signal is up, and while it is not,
\* a failed or lost connection (the loop is in its backoff sleep) is
\* followed by another connection attempt.
C9_NeverFatal ==
    /\ [](\A t \in Tasks : pc[t] = "done" => stop_event)
    /\ \A t \in Tasks :
          (pc[t] = "sleeping" /\ ~stop_event)
          ~> (pc[t] = "connecting" \/ stop_event)

\* After a lost connection and two failed attempts the loop connects again.
C9_Witness ==
    \E t \in Tasks :
        /\ pc[t] = "connecting"
        /\ lastConnect[t] # "never"
        /\ fails[t] = 2
        /\ ~stop_event

\* C10: during the delivery of an event every listener of the snapshot that
\* was reached has been invoked exactly once per registration, raising
\* listeners before it or not; each listener gets the events in arrival
\* order; and the loop stays connected with backoff at 1.
C10_ListenerIsolation ==
    \A t \in Tasks :
        /\ cur[t] # 0 => (pc[t] = "dispatching" /\ backoff[t] = BACKOFF_FLOOR)
        /\ pc[t] = "dispatching" =>
            /\ cur[t] = nframes
            /\ \A c \in Callbacks :
                /\ got[c] = Count(SubSeq(snap[t], 1, idx[t] - 1), c)
                /\ lastEv[c] <= cur[t]
                /\ got[c] > 0 => lastEv[c] = cur[t]

\* The second event has been delivered to the raising listener and then to
\* the other one.
C10_Witness ==
    \E t \in Tasks :
        /\ pc[t] = "dispatching"
        /\ snap[t] = <<"raiser", "plain">>
        /\ idx[t] = 3
        /\ cur[t] = 2
        /\ got["plain"] = 1
        /\ lastEv["plain"] = 2

\* ------------------------------------------------------------------ C11
\* C11: applying a partial event a second time right after applying it once
\* counts no update, so it changes nothing and notifies nobody; and an event
\* that notified the observers changed the data.
C11_Idempotent ==
    lastOp = "event" =>
        /\ ~merge_event(data, Events[lastIn]).u
        /\ notified => data # prevData

\* ------------------------------------------------------------------ C12
\* The top-level keys of the snapshot, and those an event names, at top
\* level or inside its nested levels dict.
TopKeys == {"master", "input_levels", "output_levels", "outputs"}
Named(e) ==
    (e.has \cap {"input_levels", "output_levels", "outputs"})
    \cup (IF "levels" \in e.has THEN e.levels.has ELSE {})
    \cup (IF e.has \cap {"master_status", "master"} # {} THEN {"master"} ELSE {})

\* C12: an event changes only the fields it names: every other top-level
\* key is present or absent as before and holds the value it held.
C12_MergeIsolation ==
    lastOp = "event" =>
        \A f \in TopKeys \ Named(Events[lastIn]) :
            /\ (f \in data.has) = (f \in prevData.has)
            /\ data[f] = prevData[f]

\* An event with input_levels only changed them and left a master dict, an
\* outputs list and output levels in place.
C12_Witness ==
    /\ lastOp = "event"
    /\ lastIn = 1
    /\ data.input_levels # prevData.input_levels
    /\ {"master", "outputs", "output_levels"} \subseteq data.has

\* ------------------------------------------------------------------ C13
\* n is the integer nearest to h hundredths; of two equally near, the even.
IsNearest(n, h) ==
    /\ 100 * n - h \in -50..50
    /\ 100 * n - h \in {-50, 50} => n % 2 = 0

\* Python's == on scalars: True == 1 and False == 0.
SameValue(a, b) ==
    IF a.k \in {"int", "bool"} /\ b.k \in {"int", "bool"}
    THEN a.v = b.v
    ELSE a = b

\* A value is stored as it should be for the value on the wire.
StoredFor(held, wire) ==
    IF wire.k = "float"
    THEN held.k = "int" /\ IsNearest(held.v, wire.v)
    ELSE SameValue(held, wire)

\* The events that carry exactly one of master_status and master, a dict.
OneMaster(e) ==
    \/ e.has \cap {"master_status", "master"} = {"master_status"}
        /\ e.master_status.isdict
    \/ e.has \cap {"master_status", "master"} = {"master"}
        /\ e.master.isdict
Carried(e) == IF "master_status" \in e.has THEN e.master_status.d ELSE e.master.d

\* C13: the keys the event's master dict carries take the (rounded) values
\* it carries, every other master key keeps its value, and an event with
\* nothing but the master dict notifies exactly when the master dict of the
\* snapshot differs afterwards.
C13_MasterKeyByKey ==
    (lastOp = "event" /\ OneMaster(Events[lastIn])) =>
        LET e == Events[lastIn]
        IN  /\ \A k \in MasterKeys :
                   IF Carried(e)[k] # Missing
                   THEN StoredFor(data.master[k], Carried(e)[k])
                   ELSE data.master[k] = prevData.master[k]
            /\ e.has \subseteq {"master_status", "master"} =>
                   (notified <=> data.master # prevData.master)

\* {"master_status": {"mute": true}} arrived with volume -20 and mute off:
\* mute is on, volume still -20, one notification.
C13_Witness ==
    /\ lastOp = "event"
    /\ lastIn = 3
    /\ notified
    /\ prevData.master.mute.v = 0
    /\ data.master.mute.v = 1
    /\ data.master.volume = IntV(-20)

\* ------------------------------------------------------------------ C14
\* The scalars of the level lists and of the master dict of a snapshot.
Leaves(d) ==
    {d.input_levels[i] : i \in DOMAIN d.input_levels}
    \cup {d.output_levels[i] : i \in DOMAIN d.output_levels}
    \cup {d.master[k] : k \in MasterKeys}

\* C14: whatever refreshes and events came before, no level and no master
\* value that the observers can read is a float.
C14_IntegersOnly == \A x \in Leaves(data) : x.k # "float"

\* Nested levels sent as floats were stored.
C14_Witness ==
    /\ lastOp = "event"
    /\ lastIn = 2
    /\ notified
    /\ data.output_levels = <<IntV(2)>>
    /\ data.input_levels = <<IntV(-10), IntV(-6)>>

\* ------------------------------------------------------------------ C15
\* A stored list holds, place by place, what it should for the list sent.
ListStoredFor(held, wire) ==
    /\ Len(held) = Len(wire)
    /\ \A i \in DOMAIN wire : StoredFor(held[i], wire[i])

\* The list an event sends for a level key: the nested one when it has one.
SentLevels(e, key) ==
    IF "levels" \in e.has /\ key \in e.levels.has
    THEN e.levels[key]
    ELSE e[key]

\* C15: after a refresh and after an event, each level and each master
\* value that was sent is held as the integer nearest to it, a half as the
\* even neighbour: 7.5 and 7.49 as 8 and 7, -20.3 as -20, -10.2 and -5.9 as
\* -10 and -6.
C15_RoundsToNearest ==
    /\ lastOp = "refresh" =>
          LET s == Snapshots[lastIn]
          IN  /\ ListStoredFor(data.input_levels, s.input_levels)
              /\ ListStoredFor(data.output_levels, s.output_levels)
              /\ \A k \in MasterKeys : StoredFor(data.master[k], s.master[k])
    /\ lastOp = "event" =>
          LET e == Events[lastIn]
          IN  /\ \A key \in Named(e) \cap {"input_levels", "output_levels"} :
                     ListStoredFor(data[key], SentLevels(e, key))
              /\ OneMaster(e) =>
                     \A k \in MasterKeys :
                         Carried(e)[k] # Missing =>
                             StoredFor(data.master[k], Carried(e)[k])
    /\ (lastOp = "event" /\ lastIn = 1) =>
          data.input_levels = <<IntV(8), IntV(7)>>
    /\ (lastOp = "refresh" /\ lastIn = 1) =>
          /\ data.master.volume = IntV(-20)
          /\ data.input_levels = <<IntV(-10), IntV(-6)>>

\* The second body was fetched: 7.5 and 2.5 are held as 8 and 2, -0.5 as 0.
C15_Witness ==
    /\ lastOp = "refresh"
    /\ lastIn = 2
    /\ data.input_levels = <<IntV(8), IntV(2)>>
    /\ data.output_levels = <<IntV(0)>>

\* ------------------------------------------------------------------ C16
\* C16: after a full refresh the snapshot has the keys of the fetched body
\* and no others, its levels and master values rounded and its outputs as
\* sent, and the observers were notified, whether or not anything changed.
C16_RefreshReplaces ==
    lastOp = "refresh" =>
        LET s == Snapshots[lastIn]
        IN  /\ notified
            /\ data.has = s.has
            /\ ListStoredFor(data.input_levels, s.input_levels)
            /\ ListStoredFor(data.output_levels, s.output_levels)
            /\ \A k \in MasterKeys : StoredFor(data.master[k], s.master[k])
            /\ data.outputs = s.outputs

\* A requested refresh fetched what the snapshot already held.
C16_Witness ==
    /\ lastOp = "refresh"
    /\ setup = "ready"
    /\ prevData # NoData
    /\ data = prevData
    /\ notified

\* ------------------------------------------------------------------ C17
\* C17: a listener, a connection task, an unsubscribe handle or a stored
\* coordinator exist only once the entry is ready, which takes a first
\* refresh that succeeded; after a first refresh that failed the entry is
\* not ready, one GET was issued and none of the four exists.
C17_StartupGating ==
    /\ (listeners # <<>> \/ ws_task # 0 \/ unsubscribe_ws # "" \/ stored) =>
          (setup = "ready" /\ data # NoData)
    /\ setup = "not_ready" =>
          /\ lastOp = "refresh_failed"
          /\ fetches = 1
          /\ listeners = <<>>
          /\ ws_task = 0
          /\ \A t \in Tasks : pc[t] = "none"
          /\ unsubscribe_ws = ""
          /\ ~stored

\* The first refresh failed and setup gave up.
C17_Witness ==
    /\ setup = "not_ready"
    /\ lastOp = "refresh_failed"
    /\ data = NoData

\* ------------------------------------------------------------------ C18
\* The stream of the entry's API object delivers: its task holds an open
\* socket.
StreamActive == ws_task # 0 /\ pc[ws_task] \in {"receiving", "dispatching"}
\* The stream is down: the task waits to connect again after a failed
\* attempt or a lost connection.
StreamDown == ws_task # 0 /\ pc[ws_task] = "sleeping"

\* C18: while the entry is set up, the coordinator does not poll while the
\* stream delivers and polls on the fixed interval while the stream is down.
C18_PollingIsFallback ==
    setup = "ready" =>
        /\ StreamActive => update_interval = 0
        /\ StreamDown => update_interval = SCAN_INTERVAL_SECONDS

\* ------------------------------------------------------------------ C19
\* No connection loop is running: none was started, or it has returned.
NoLoop == ws_task = 0 \/ pc[ws_task] = "done"

\* C19: a disconnect called while no loop is running and no other
\* disconnect is pending, on the API object or on a coordinator that holds
\* no unsubscribe handle, returns in the same step and leaves listeners,
\* stop signal, tasks, backoff and snapshot as they were.
C19_DisconnectIdempotent ==
    [][(/\ NoLoop
        /\ dpc = "idle"
        /\ unsubscribe_ws' = unsubscribe_ws
        /\ setup' = setup
        /\ (dpc' # dpc \/ (discReturned' /\ ~discReturned)))
       => (/\ dpc' = "idle"
           /\ discReturned'
           /\ UNCHANGED <<listeners, handles, ws_task, stop_event, pc>>
           /\ UNCHANGED loopVars
           /\ UNCHANGED <<data, stored>>)]_vars

\* A disconnect has returned on an API object that never had a loop.
C19_Witness ==
    /\ ws_task = 0
    /\ discReturned
    /\ dpc = "idle"
    /\ listeners = <<>>

\* ------------------------------------------------------------------ C20
\* C20: a step that drops a malformed frame calls no listener, starts no
\* dispatch, and leaves every task where it was -- the receiving task still
\* receiving -- with its backoff unchanged.
C20_MalformedDropped ==
    [][nbad' = nbad + 1
       => (/\ UNCHANGED <<pc, backoff, sleepLeft, got, lastEv, cur, idx, snap>>
           /\ UNCHANGED <<listeners, stop_event, ws_task>>
           /\ \E t \in Tasks : pc'[t] = "receiving")]_vars

\* A valid frame is being dispatched, and has reached a listener, on a
\* connection that dropped a malformed frame before it.
C20_Witness ==
    \E t \in Tasks :
        /\ pc[t] = "dispatching"
        /\ nbad >= 1
        /\ got["plain"] = 1

\* ------------------------------------------------------------------ C21
\* C21: when the dispatch of an event ends, each callback has been called
\* as many times as it stood in the listener list when the dispatch began,
\* whatever was subscribed or unsubscribed meanwhile: a listener that was in
\* the list once is called once, one that was added later is not called.
C21_DispatchOnSnapshot ==
    [][\A t \in Tasks :
          (pc[t] = "dispatching" /\ pc'[t] = "receiving") =>
              \A cb \in Callbacks : got[cb] = Count(snap[t], cb)]_vars

\* A dispatch that began with two listeners has called both, the second
\* one after the first was unsubscribed.
C21_Witness ==
    \E t \in Tasks :
        /\ pc[t] = "dispatching"
        /\ snap[t] = <<"raiser", "plain">>
        /\ listeners = <<"plain">>
        /\ idx[t] = 3
        /\ got["plain"] = 1
        /\ got["raiser"] = 1

\* ------------------------------------------------------------------ C25
\* C25: a callback is only ever called while it is in the listener list: a
\* listener whose unsubscribe handle has returned, and that was not
\* subscribed again, is not called, not even for the event in flight.
C25_NoCallAfterUnsubscribe ==
    [][\A cb \in Callbacks :
          got'[cb] = got[cb] + 1 => InList(listeners, cb)]_vars

\* ------------------------------------------------------------------ C22
\* C22: the snapshot that observers and refreshes find after an event holds
\* all of the event: every level list it sent, the outputs list it sent and
\* every master key it carried, with every other key and master key as
\* before.  No state holds some of an event's fields without the others.
C22_EventAppliedWhole ==
    lastOp = "event" =>
        LET e == Events[lastIn]
        IN  /\ \A key \in {"input_levels", "output_levels"} :
                   IF key \in Named(e)
                   THEN key \in data.has
                        /\ ListStoredFor(data[key], SentLevels(e, key))
                   ELSE data[key] = prevData[key]
            /\ IF "outputs" \in e.has /\ e.outputs.islist
               THEN data.outputs = e.outputs.l
               ELSE data.outputs = prevData.outputs
            /\ OneMaster(e) =>
                   \A k \in MasterKeys :
                       IF Carried(e)[k] # Missing
                       THEN StoredFor(data.master[k], Carried(e)[k])
                       ELSE data.master[k] = prevData.master[k]
            /\ "master" \notin Named(e) => data.master = prevData.master

\* An event with input_levels and master_status changed both in its one step.
C22_Witness ==
    /\ lastOp = "event"
    /\ lastIn = 8
    /\ notified
    /\ data.input_levels # prevData.input_levels
    /\ data.master.volume # prevData.master.volume
    /\ data.master.source # prevData.master.source

\* ------------------------------------------------------------------ C23
\* C23: an event whose outputs is a list leaves that list, as sent, as the
\* snapshot's outputs and notifies, also when the list was there already;
\* outputs that is not a list changes nothing and, alone, notifies nobody.
C23_OutputsWholesale ==
    (lastOp = "event" /\ "outputs" \in Events[lastIn].has) =>
        LET e == Events[lastIn]
        IN  IF e.outputs.islist
            THEN /\ "outputs" \in data.has
                 /\ data.outputs = e.outputs.l
                 /\ notified
            ELSE /\ ("outputs" \in data.has) = ("outputs" \in prevData.has)
                 /\ data.outputs = prevData.outputs
                 /\ e.has = {"outputs"} => (~notified /\ data = prevData)

\* An outputs list equal to the stored one arrived, and the observers were
\* notified.
C23_Witness ==
    /\ lastOp = "event"
    /\ lastIn = 5
    /\ "outputs" \in prevData.has
    /\ data = prevData
    /\ notified

\* ------------------------------------------------------------------ C24
\* C24: a master value that is a string or a boolean on the wire is held in
\* the snapshot as that string or boolean, after a refresh and after an
\* event that carried it.
C24_NonNumbersPassThrough ==
    /\ lastOp = "refresh" =>
          \A k \in MasterKeys :
              Snapshots[lastIn].master[k].k \in {"str", "bool"} =>
                  data.master[k] = Snapshots[lastIn].master[k]
    /\ (lastOp = "event" /\ OneMaster(Events[lastIn])) =>
          \A k \in MasterKeys :
              Carried(Events[lastIn])[k].k \in {"str", "bool"} =>
                  data.master[k] = Carried(Events[lastIn])[k]

\* ------------------------------------------------------------------ C26
\* C26: an event without outputs that notified the observers left a
\* snapshot that differs from the one before it.
C26_NotifiedMeansChanged ==
    (lastOp = "event" /\ "outputs" \notin Events[lastIn].has /\ notified) =>
        data # prevData

====
